---- MODULE Spec2Model ----
(***************************************************************************)
(* Redmine time logger (redmine-time-logger.py and its Python 3.5 port     *)
(* redmine-time-logger-py35.py): the pure helpers (proration, tolerant     *)
(* parsing), the allocation loops, TimeLogger.__init__ with the config     *)
(* file and the login loop, and TimeLogger.run as a state machine.         *)
(*                                                                         *)
(* Hours are Python floats in the source.  Here they are fixed-point       *)
(* integers counted in 1/Unit of an hour, Unit fine enough to hold every   *)
(* literal the user can type within MaxTextLen characters exactly.  The    *)
(* direction in which a float rounds an exact tie depends on its binary    *)
(* representation, so every rounding yields the SET of nearest values and  *)
(* the caller picks one of them.                                           *)
(*                                                                         *)
(* Texts (user input, comments) are sequences of one-character strings.    *)
(***************************************************************************)
EXTENDS Integers, Sequences, FiniteSets, TLC

(* ------------------------------ bounds -------------------------------- *)
MaxTextLen == 5
MaxIssue == 2
MaxProject == 1
MaxEntries == 2
MaxMilli == 300
MaxCount == 4
MaxQueue == 3
MaxCents == 40
MaxListed == 11

Unit == 10 ^ MaxTextLen
Cent == Unit \div 100
Milli == Unit \div 1000

(* ------------------------------ texts --------------------------------- *)
DigitChars == {"0", "1", "5"}
Alphabet == {"1", ".", "-", " ", "x"}
Texts == UNION {[1..n -> Alphabet] : n \in 0..MaxTextLen}

DigitVal(c) == IF c = "1" THEN 1 ELSE IF c = "5" THEN 5 ELSE 0

RECURSIVE DigitsValue(_)
DigitsValue(ds) ==
    IF ds = <<>> THEN 0
    ELSE 10 * DigitsValue(SubSeq(ds, 1, Len(ds) - 1)) + DigitVal(ds[Len(ds)])

AllDigits(s) == \A i \in 1..Len(s) : s[i] \in DigitChars

\* str.strip() of the blanks float() and int() ignore at both ends
Strip(s) ==
    IF \A i \in 1..Len(s) : s[i] = " " THEN <<>>
    ELSE LET a == CHOOSE i \in 1..Len(s) : s[i] # " " /\ \A j \in 1..(i-1) : s[j] = " "
             b == CHOOSE i \in 1..Len(s) : s[i] # " " /\ \A j \in (i+1)..Len(s) : s[j] = " "
         IN SubSeq(s, a, b)

Unsigned(t) == IF t # <<>> /\ t[1] = "-" THEN Tail(t) ELSE t
Negative(t) == t # <<>> /\ t[1] = "-"

DotAt(u) == IF \E i \in 1..Len(u) : u[i] = "."
            THEN CHOOSE i \in 1..Len(u) : u[i] = "." /\ \A j \in 1..(i-1) : u[j] # "."
            ELSE 0

IntPart(u) == IF DotAt(u) = 0 THEN u ELSE SubSeq(u, 1, DotAt(u) - 1)
FracPart(u) == IF DotAt(u) = 0 THEN <<>> ELSE SubSeq(u, DotAt(u) + 1, Len(u))

\* float(s) succeeds: [blanks] [-] digits [. digits] | [-] . digits [blanks]
IsFloat(s) ==
    LET u == Unsigned(Strip(s))
    IN /\ AllDigits(IntPart(u))
       /\ AllDigits(FracPart(u))
       /\ Len(IntPart(u)) + Len(FracPart(u)) > 0

\* float(s), in 1/Unit of an hour
FloatValue(s) ==
    LET t == Strip(s)
        u == Unsigned(t)
        f == FracPart(u)
        m == DigitsValue(IntPart(u)) * Unit + DigitsValue(f) * (Unit \div (10 ^ Len(f)))
    IN IF Negative(t) THEN 0 - m ELSE m

\* int(s) succeeds: [blanks] [-] digits [blanks]
IsInt(s) ==
    LET u == Unsigned(Strip(s))
    IN u # <<>> /\ AllDigits(u)

IntValue(s) ==
    LET t == Strip(s)
        m == DigitsValue(Unsigned(t))
    IN IF Negative(t) THEN 0 - m ELSE m

FirstSpace(s) == IF \E i \in 1..Len(s) : s[i] = " "
                 THEN CHOOSE i \in 1..Len(s) : s[i] = " " /\ \A j \in 1..(i-1) : s[j] # " "
                 ELSE 0

LastSpace(s) == IF \E i \in 1..Len(s) : s[i] = " "
                THEN CHOOSE i \in 1..Len(s) : s[i] = " " /\ \A j \in (i+1)..Len(s) : s[j] # " "
                ELSE 0

\* text.split(' ', 1): the list of parts, one part when there is no blank
split1(s) ==
    IF FirstSpace(s) = 0 THEN <<s>>
    ELSE <<SubSeq(s, 1, FirstSpace(s) - 1), SubSeq(s, FirstSpace(s) + 1, Len(s))>>

\* text.rsplit(' ', 1)
rsplit1(s) ==
    IF LastSpace(s) = 0 THEN <<s>>
    ELSE <<SubSeq(s, 1, LastSpace(s) - 1), SubSeq(s, LastSpace(s) + 1, Len(s))>>

\* str.lower() on the answers of the yes/no prompts
lower(s) == [i \in 1..Len(s) |-> IF s[i] = "Y" THEN "y" ELSE IF s[i] = "N" THEN "n" ELSE s[i]]

(* ----------------------------- rounding ------------------------------- *)
\* round(num / den) for den > 0: the nearest integer, both neighbours on a tie
RoundNearest(num, den) ==
    LET q == num \div den
        r == num - q * den
    IN IF 2 * r < den THEN {q}
       ELSE IF 2 * r > den THEN {q + 1}
       ELSE {q, q + 1}

\* round(x, 2)
round2(x) == {Cent * k : k \in RoundNearest(x, Cent)}

\* '{:.2f}'.format(x), as the number the text denotes
format2(x) == {Cent * k : k \in RoundNearest(x, Cent)}

compute_hours_per_issue_floor(hours, issue_count) ==
    {5 * Cent * (hours \div (5 * Cent * issue_count))}

\* round(round((hours / issue_count) / .05) * .05, 2)
compute_hours_per_issue(hours, issue_count) ==
    {5 * Cent * k : k \in RoundNearest(hours, 5 * Cent * issue_count)}

(* ------------------------------ parsing ------------------------------- *)
parse_hours_and_comment_swapped(text, default_hours, default_comment) ==
    IF text = <<>> THEN [hours |-> default_hours, comment |-> default_comment]
    ELSE LET parts == rsplit1(text)
         IN IF Len(parts) = 2 /\ IsFloat(parts[1])
            THEN [hours |-> FloatValue(parts[1]), comment |-> parts[2]]
            ELSE IF IsFloat(text)
            THEN [hours |-> FloatValue(text), comment |-> default_comment]
            ELSE [hours |-> default_hours, comment |-> text]

\* try: hours, comment = text.split(' ', 1); hours = float(hours)
\* except ValueError: try: hours = float(text) ... except ValueError: ...
parse_hours_and_comment(text, default_hours, default_comment) ==
    IF text = <<>> THEN [hours |-> default_hours, comment |-> default_comment]
    ELSE LET parts == split1(text)
         IN IF Len(parts) = 2 /\ IsFloat(parts[1])
            THEN [hours |-> FloatValue(parts[1]), comment |-> parts[2]]
            ELSE IF IsFloat(text)
            THEN [hours |-> FloatValue(text), comment |-> default_comment]
            ELSE [hours |-> default_hours, comment |-> text]

\* next(activity for activity in self.activities if activity.id == activity_id)
ActivityById(acts, id) ==
    acts[CHOOSE i \in 1..Len(acts) : acts[i].id = id /\ \A j \in 1..(i-1) : acts[j].id # id]

\* One try block holds the split, float(), the rsplit, int() and the lookup:
\* a ValueError or StopIteration of any of them abandons all of them.
parse_hours_comment_and_activity(acts, text, default_hours, default_comment, default_activity) ==
    IF text = <<>>
    THEN [hours |-> default_hours, comment |-> default_comment, activity |-> default_activity]
    ELSE LET parts == split1(text)
             tail  == IF Len(parts) = 2 THEN rsplit1(parts[2]) ELSE <<>>
             ok    == /\ Len(parts) = 2
                      /\ IsFloat(parts[1])
                      /\ Len(tail) = 2
                      /\ IsInt(tail[2])
                      /\ \E i \in 1..Len(acts) : acts[i].id = IntValue(tail[2])
         IN IF ok
            THEN [hours |-> FloatValue(parts[1]), comment |-> tail[1],
                  activity |-> ActivityById(acts, IntValue(tail[2]))]
            ELSE IF IsFloat(text)
            THEN [hours |-> FloatValue(text), comment |-> default_comment,
                  activity |-> default_activity]
            ELSE [hours |-> default_hours, comment |-> text, activity |-> default_activity]

(* ------------------------------- state -------------------------------- *)
VARIABLES
    rev,                  \* which source revision runs: "py35" or "f" (the f-string one)
    pc,                   \* where run() stands: the input() or external call it waits at
    daily_hours,          \* self.daily_hours
    remaining_hours,      \* self.remaining_hours
    processed_issue_ids,  \* self.processed_issue_ids
    worked_issue_ids,     \* worked_issue_ids of run(), revision "f"
    phase,                \* which allocation loop runs: "primary", "suggested", "projects"
    queue,                \* to_allocate_issues / additional_issues / to_allocate_projects
    issue_index,          \* issue_index / project_index of the prompt being shown
    default_hours,        \* the default hours last offered, while loop # NoLoop
    allocations,          \* allocations of run()
    suggested,            \* suggested_additional_issues
    projects,             \* projects of run_log_on_projects
    created,              \* the time_entry.create calls the service accepted, in order
    attempts,             \* the number of time_entry.create calls issued
    reported,             \* the final message printed: "", "all_done", "negative", ...
    status,               \* "running", or how the process ended: "0", "-1", "raised" (by a
                          \* create call), "listing raised", "interrupted"
    prompted,             \* whether an input() call was answered
    fetched,              \* whether a candidate listing was requested
    logged,               \* the hours of the existing time entries
    loop,                 \* while every answer of the running loop was empty: what it
                          \* started from, [defaults, hours0, allocs0, left]; else NoLoop
    activities,           \* self.activities
    default_activity,     \* self.default_activity
    confirm,              \* <<the answer typed at 'Confirm? (y/N): '>>, <<>> before it
    call,                 \* the helper call under test: its function and arguments
    ret,                  \* its result, <<>> before it returned
    existing_time_entries,\* the issues of existing_time_entries of run()
    options,              \* the command line: [daily_hours, ignored_statuses]
    config_file,          \* the content of ~/.time-logger.json
    config,               \* self.config
    original_config_dump, \* self.original_config_dump
    config_writes,        \* how often this process wrote the config file
    username_token,       \* username_token of open_redmine
    password_token,       \* password_token of open_redmine
    redmine,              \* self.redmine: the credentials it was built with
    asked,                \* the credential prompts of the latest attempt
    failures,             \* the AuthErrors caught so far
    process,              \* [run, asked]: which run of the program this is, and
                          \* whether __init__ answered a prompt in it
    service               \* what the Redmine service holds: the account it accepts
                          \* and its time entry activities

\* what __init__ works on and run() leaves alone
initVars == <<options, config_file, config, original_config_dump, config_writes,
              username_token, password_token, redmine, asked, failures, process,
              service>>

vars == <<rev, pc, daily_hours, remaining_hours, processed_issue_ids, worked_issue_ids,
          phase, queue, issue_index, default_hours, allocations, suggested, projects,
          created, attempts, reported, status, prompted, fetched, logged, loop,
          activities, default_activity, confirm, call, ret, existing_time_entries,
          initVars>>

runVars == <<rev, pc, daily_hours, remaining_hours, processed_issue_ids, worked_issue_ids,
             phase, queue, issue_index, default_hours, allocations, suggested, projects,
             created, attempts, reported, status, prompted, fetched, logged, loop,
             activities, default_activity, confirm, existing_time_entries, initVars>>

(* --------------------------- the world -------------------------------- *)
NoActivity == [id |-> 0, name |-> "None"]
Development == [id |-> 1, name |-> "Development"]
OnProject == [id |-> 11, name |-> "On project"]

\* the lists enumeration.filter(resource='time_entry_activities') may return
ActivityLists == {<<Development>>, <<Development, OnProject>>, <<OnProject>>}

WIP == <<"W", "I", "P">>
NoCall == [fn |-> "none"]
NoLoop == [hours0 |-> 0, allocs0 |-> 0, defaults |-> FALSE, left |-> 0]

(* --------------------------- the config ------------------------------- *)
DEFAULT_DAILY_HOURS == 78 * (Unit \div 10)

\* a Fernet token: fernet.encrypt(text) is a new token at every call,
\* fernet.decrypt(token) the text it was made from; NoToken is None
NoToken == [plain |-> "", nonce |-> 0]
encrypt(text, nonce) == [plain |-> text, nonce |-> nonce]
decrypt(token) == token.plain

\* json.load of the config file as a flat record, a key that is absent holding
\* 0, "", NoToken or "absent"; {} when there is no file.  ignoredStatuses is
\* "absent", "null" (None) or the list of names as written
EmptyConfig ==
    [dailyHours |-> 0, key |-> 0, url |-> "", username |-> NoToken, password |-> NoToken,
     activity |-> "", ignoredStatuses |-> "absent"]

\* the file an earlier run of revision r left
StoredConfig(r) ==
    [dailyHours |-> Unit, key |-> 1, url |-> "https://r",
     username |-> encrypt("u", 1), password |-> encrypt("p", 1),
     activity |-> "Development",
     ignoredStatuses |-> IF r = "py35" THEN "[Ignored]" ELSE "absent"]

NoRedmine == [username |-> "", password |-> ""]
NoOptions == [daily_hours |-> 0, ignored_statuses |-> "null"]
FirstRun == [run |-> 1, asked |-> FALSE]

\* configure_daily_hours: the option, else the config's dailyHours, else the
\* default (an option or a dailyHours of 0 counts as none)
configure_daily_hours(cfg, option) ==
    IF option # 0 THEN option
    ELSE IF cfg.dailyHours # 0 THEN cfg.dailyHours ELSE DEFAULT_DAILY_HOURS

\* configure_ignored_statuses: the option, else config.get('ignoredStatuses')
configure_ignored_statuses(cfg, option) ==
    IF option # "null" THEN option
    ELSE IF cfg.ignoredStatuses = "absent" THEN "null" ELSE cfg.ignoredStatuses

\* a service that accepts the stored account
GoodService ==
    [username |-> "u", password |-> "p", activities |-> <<Development, OnProject>>]

\* before TimeLogger(options): nothing read, nothing written
NotConstructed ==
    /\ config = EmptyConfig /\ original_config_dump = EmptyConfig
    /\ config_writes = 0 /\ username_token = NoToken /\ password_token = NoToken
    /\ redmine = NoRedmine /\ asked = <<>> /\ failures = 0 /\ process = FirstRun

\* after TimeLogger(options) on the file of an earlier run, the stored
\* credentials accepted at once: --daily-hours is absent when daily_hours is
\* the stored one, and the file was written when it is not
Constructed ==
    LET file == StoredConfig(rev)
    IN /\ options = [daily_hours |-> IF daily_hours = file.dailyHours THEN 0 ELSE daily_hours,
                     ignored_statuses |-> "null"]
       /\ original_config_dump = file
       /\ config = [file EXCEPT !.dailyHours = daily_hours]
       /\ config_file = config
       /\ config_writes = (IF config # file THEN 1 ELSE 0)
       /\ username_token = file.username /\ password_token = file.password
       /\ redmine = [username |-> decrypt(file.username), password |-> decrypt(file.password)]
       /\ asked = << {} >> /\ failures = 0 /\ process = FirstRun
       /\ service = GoodService

(* ------------------- the helpers on enumerated inputs ----------------- *)
IdleRun ==
    /\ rev = "py35" /\ pc = "idle" /\ daily_hours = 0 /\ remaining_hours = 0
    /\ processed_issue_ids = {} /\ worked_issue_ids = {} /\ phase = "none"
    /\ queue = <<>> /\ issue_index = 0 /\ default_hours = 0 /\ allocations = <<>>
    /\ suggested = <<>> /\ projects = <<>> /\ created = <<>> /\ attempts = 0
    /\ reported = "" /\ status = "running" /\ prompted = FALSE /\ fetched = FALSE
    /\ logged = 0 /\ loop = NoLoop
    /\ activities = <<Development>> /\ default_activity = Development /\ confirm = <<>>
    /\ existing_time_entries = {}
    /\ options = NoOptions /\ config_file = EmptyConfig /\ NotConstructed
    /\ service = GoodService

InitPure ==
    /\ IdleRun
    /\ ret = <<>>
    /\ \/ \E h \in 1..MaxMilli, n \in 1..MaxCount :
             call = [fn |-> "compute_hours_per_issue", hours |-> h * Milli, issue_count |-> n]
       \/ \E t \in Texts, dh \in {0, 26 * (Unit \div 10)}, dc \in {<<>>, WIP} :
             call = [fn |-> "parse_hours_and_comment", text |-> t,
                     default_hours |-> dh, default_comment |-> dc]
       \/ \E t \in Texts, acts \in ActivityLists :
             \E da \in {acts[i] : i \in 1..Len(acts)} :
                call = [fn |-> "parse_hours_comment_and_activity", text |-> t,
                        activities |-> acts, default_hours |-> 26 * (Unit \div 10),
                        default_comment |-> WIP, default_activity |-> da]

CallCompute ==
    /\ call.fn = "compute_hours_per_issue" /\ ret = <<>>
    /\ \E r \in compute_hours_per_issue(call.hours, call.issue_count) : ret' = <<r>>
    /\ UNCHANGED <<runVars, call>>

CallParse ==
    /\ call.fn = "parse_hours_and_comment" /\ ret = <<>>
    /\ ret' = <<parse_hours_and_comment(call.text, call.default_hours, call.default_comment)>>
    /\ UNCHANGED <<runVars, call>>

CallParseActivity ==
    /\ call.fn = "parse_hours_comment_and_activity" /\ ret = <<>>
    /\ ret' = <<parse_hours_comment_and_activity(call.activities, call.text,
                    call.default_hours, call.default_comment, call.default_activity)>>
    /\ UNCHANGED <<runVars, call>>

NextPure == CallCompute \/ CallParse \/ CallParseActivity

SpecPure == InitPure /\ [][NextPure]_vars

(* ====================================================================== *)
(* TimeLogger.run                                                         *)
(* ====================================================================== *)
IssueIds == 1..MaxIssue
ProjectIds == 1..MaxProject

\* issue.tracker.name of the issues of the service
IssueTracker(id) == IF id = 1 THEN "Anomaly" ELSE IF id = 2 THEN "Feature" ELSE "Task"

\* DEFAULT_COMMENTS.get(name, DEFAULT_COMMENTS[None]) of either revision
DEFAULT_COMMENTS(r, name) ==
    IF name = "Anomaly" THEN (IF r = "py35" THEN <<"F", "i", "x">> ELSE <<"f", "i", "x">>)
    ELSE IF name = "Feature"
    THEN (IF r = "py35" THEN <<"I", "m", "p", "l", "e", "m", "e", "n", "t">>
          ELSE <<"i", "m", "p", "l", "e", "m", "e", "n", "t">>)
    ELSE IF name = "Project" /\ r = "py35"
    THEN <<"O", "n", " ", "p", "r", "o", "j", "e", "c", "t">>
    ELSE (IF r = "py35" THEN WIP ELSE <<"w", "i", "p">>)

\* 'project' in activity.name.lower()
NamesProject(a) == a.name \in {"On project"}

\* allocate_projects: the first activity named after projects, else the first
\* activity, else None
ProjectDefaultActivity(acts) ==
    IF \E i \in 1..Len(acts) : NamesProject(acts[i])
    THEN acts[CHOOSE i \in 1..Len(acts) :
                 NamesProject(acts[i]) /\ \A j \in 1..(i-1) : ~NamesProject(acts[j])]
    ELSE IF acts # <<>> THEN acts[1] ELSE NoActivity

RECURSIVE Ascending(_)
Ascending(S) ==
    IF S = {} THEN <<>>
    ELSE LET m == CHOOSE x \in S : \A y \in S : x <= y
         IN <<m>> \o Ascending(S \ {m})

RECURSIVE SumHours(_)
SumHours(seq) == IF seq = <<>> THEN 0 ELSE seq[1].hours + SumHours(Tail(seq))

SeqsUpTo(S, n) == UNION {[1..k -> S] : k \in 0..n}
Ids(seq) == {seq[i] : i \in 1..Len(seq)}
Min(a, b) == IF a < b THEN a ELSE b

(* ---------------------- what the user and the service give ------------ *)
\* self.daily_hours as __init__ leaves it (--daily-hours is any float)
DailyChoices == {Unit, 996 * Milli}
\* time_entry.hours and the issue of a time entry (0: a project entry)
EntryRecs == [issue : 0..MaxIssue, hours : {Unit \div 2, Unit}]
\* the answers to the 'hours comment' prompts
IssueAnswers == {<<>>, <<"0">>, <<"-", "1">>, <<".", "5", "0", "1", " ", "x">>}
ProjectAnswers == {<<>>, <<"1", " ", "x", " ", "1">>, <<"1", " ", "x">>}
YesNoAnswers == {<<>>, <<"y">>, <<"Y">>, <<"n">>, <<"N">>}
ConfirmAnswers == {<<>>, <<"y">>, <<"Y">>, <<"n">>}
\* the ids typed at 'Additional issue IDs' and 'Project IDs', already int()ed
IssueIdInputs == {<<>>} \cup {<<i>> : i \in 0..MaxIssue}
ProjectIdInputs == {<<>>} \cup {<<p>> : p \in 0..MaxProject}

\* the program started on the config file of an earlier run, with or without
\* --daily-hours, the service accepting the stored account
Init ==
    /\ rev \in {"py35", "f"}
    /\ pc = "init"
    /\ \E d \in DailyChoices :
          options = [daily_hours |-> IF d = StoredConfig(rev).dailyHours THEN 0 ELSE d,
                     ignored_statuses |-> "null"]
    /\ config_file = StoredConfig(rev)
    /\ service = GoodService
    /\ NotConstructed
    /\ daily_hours = 0 /\ remaining_hours = 0
    /\ processed_issue_ids = {} /\ worked_issue_ids = {}
    /\ phase = "none" /\ queue = <<>> /\ issue_index = 0 /\ default_hours = 0
    /\ allocations = <<>> /\ suggested = <<>> /\ projects = <<>>
    /\ created = <<>> /\ attempts = 0 /\ reported = "" /\ status = "running"
    /\ prompted = FALSE /\ fetched = FALSE /\ logged = 0 /\ loop = NoLoop
    /\ activities = <<>>
    /\ default_activity = NoActivity
    /\ confirm = <<>>
    /\ call = NoCall /\ ret = <<>>
    /\ existing_time_entries = {}

(* --------------------------- control flow ----------------------------- *)
Exit(message, code) == pc' = "exit" /\ reported' = message /\ status' = code
Goto(label) == pc' = label /\ UNCHANGED <<reported, status>>

\* 'if not allocations: print(Nothing to allocate); return', else the summary
\* and the confirmation prompt
ToSummary(allocs) ==
    IF allocs = <<>> THEN Exit("nothing", "0") ELSE Goto("confirm")

\* py35: 'if self.remaining_hours > 0 and input(Log time on projects?) ...'
ToProjects(rem, allocs) ==
    IF rev = "py35" /\ rem > 0 THEN Goto("projects_prompt") ELSE ToSummary(allocs)

ToSearch_always(rem, allocs) ==
    Goto("search_prompt")

\* 'if self.remaining_hours > 0: ... input(Search for more issues?)'
ToSearch(rem, allocs) ==
    IF rem > 0 THEN Goto("search_prompt") ELSE ToProjects(rem, allocs)

AfterLoop(ph, rem, allocs) ==
    IF ph = "primary" THEN ToSearch(rem, allocs)
    ELSE IF ph = "suggested" THEN ToProjects(rem, allocs)
    ELSE ToSummary(allocs)

\* 'self.processed_issue_ids.add(issue.id)' opens each pass of the issue
\* loops, before the prompt of that issue is shown
Shown(ph, target) ==
    IF ph = "projects" THEN processed_issue_ids ELSE processed_issue_ids \cup {target}

\* allocate_issues / allocate_projects called on a list: the first prompt, or
\* straight on when the list is empty
StartLoop(ph, list, rem, allocs) ==
    IF list = <<>>
    THEN /\ AfterLoop(ph, rem, allocs)
         /\ UNCHANGED <<phase, queue, issue_index, loop, processed_issue_ids>>
    ELSE /\ Goto("allocate")
         /\ processed_issue_ids' = Shown(ph, list[1])
         /\ phase' = ph /\ queue' = list /\ issue_index' = 1
         /\ loop' = [hours0 |-> rem, allocs0 |-> Len(allocs), defaults |-> TRUE,
                     left |-> Len(list)]

(* --------------------------- __init__ --------------------------------- *)
MaxFailures == 2

Usernames == {"u", "v"}
Passwords == {"p", "q"}
UrlAnswers == {"r", "http://r"}
ActivityIdAnswers == {Development.id, OnProject.id, 0}

\* Fernet.generate_key(): a key no earlier run had
generate_key(run) == run + 1

\* "if ':' not in url: url = 'https://' + url"
WithScheme(url) == IF url = "r" THEN "https://r" ELSE url

\* the frame of every step of __init__: run() has not begun
RunNotBegun ==
    UNCHANGED <<rev, processed_issue_ids, worked_issue_ids, phase, queue, issue_index,
                default_hours, allocations, suggested, projects, created, attempts,
                prompted, fetched, logged, loop, confirm, call, ret,
                existing_time_entries, options, service>>

\* read_config, configure_daily_hours, 'self.remaining_hours = self.daily_hours'
\* and open_redmine up to its first prompt: the key, the redmine section and
\* the cached tokens
ReadConfig ==
    /\ pc = "init"
    /\ LET daily == configure_daily_hours(config_file, options.daily_hours)
       IN /\ original_config_dump' = config_file
          /\ config' = [config_file EXCEPT
                           !.dailyHours = daily,
                           !.key = IF @ = 0 THEN generate_key(process.run) ELSE @]
          /\ daily_hours' = daily
          /\ remaining_hours' = daily
    /\ username_token' = config_file.username
    /\ password_token' = config_file.password
    /\ Goto(IF config_file.url = "" THEN "url_prompt" ELSE "authenticate")
    /\ UNCHANGED <<config_file, config_writes, redmine, asked, failures, process,
                   activities, default_activity>>
    /\ RunNotBegun

\* 'Redmine URL: ' answered
AnswerUrl ==
    /\ pc = "url_prompt"
    /\ \E url \in UrlAnswers : config' = [config EXCEPT !.url = WithScheme(url)]
    /\ process' = [process EXCEPT !.asked = TRUE]
    /\ Goto("authenticate")
    /\ UNCHANGED <<config_file, original_config_dump, config_writes, username_token,
                   password_token, redmine, asked, failures, daily_hours, remaining_hours,
                   activities, default_activity>>
    /\ RunNotBegun

Discarded_kept(token) == token

\* 'username_token = None' / 'password_token = None' after an AuthError
Discarded(token) == NoToken

\* one pass of 'while True': the cached token decrypted or the prompt answered
\* and its encryption stored, for the username and for the password; then
\* Redmine(...) and user.get('current'), which the service accepts (break) or
\* refuses with AuthError
Authenticate ==
    /\ pc = "authenticate"
    /\ \E u \in Usernames, p \in Passwords :
         LET askU == username_token = NoToken
             askP == password_token = NoToken
             username == IF askU THEN u ELSE decrypt(username_token)
             password == IF askP THEN p ELSE decrypt(password_token)
             nonce == 10 * process.run + failures + 1
         IN /\ config' = [config EXCEPT
                             !.username = IF askU THEN encrypt(u, nonce) ELSE @,
                             !.password = IF askP THEN encrypt(p, nonce) ELSE @]
            /\ asked' = Append(asked, (IF askU THEN {"Username"} ELSE {})
                                         \cup (IF askP THEN {"Password"} ELSE {}))
            /\ process' = [process EXCEPT !.asked = @ \/ askU \/ askP]
            /\ IF username = service.username /\ password = service.password
               THEN /\ redmine' = [username |-> username, password |-> password]
                    /\ Goto("activities")
                    /\ UNCHANGED <<username_token, password_token, failures>>
               ELSE /\ failures < MaxFailures
                    /\ failures' = failures + 1
                    /\ username_token' = Discarded(username_token)
                    /\ password_token' = Discarded(password_token)
                    /\ UNCHANGED <<pc, reported, status, redmine>>
    /\ UNCHANGED <<config_file, original_config_dump, config_writes, daily_hours,
                   remaining_hours, activities, default_activity>>
    /\ RunNotBegun

\* the activities are listed; the one the config names becomes the default
\* (next() raises StopIteration when none has the name), else its id is asked
LoadActivities ==
    /\ pc = "activities"
    /\ activities' = service.activities
    /\ IF config.activity = ""
       THEN Goto("activity_prompt") /\ UNCHANGED default_activity
       ELSE IF \E i \in 1..Len(service.activities) : service.activities[i].name = config.activity
       THEN /\ default_activity' =
                  service.activities[CHOOSE i \in 1..Len(service.activities) :
                                        service.activities[i].name = config.activity]
            /\ Goto("statuses")
       ELSE Exit("", "StopIteration") /\ UNCHANGED default_activity
    /\ UNCHANGED <<config_file, config, original_config_dump, config_writes, username_token,
                   password_token, redmine, asked, failures, process, daily_hours,
                   remaining_hours>>
    /\ RunNotBegun

\* 'Default activity ID for issues: ' answered with a number
AnswerActivity ==
    /\ pc = "activity_prompt"
    /\ \E id \in ActivityIdAnswers :
         IF \E i \in 1..Len(activities) : activities[i].id = id
         THEN /\ default_activity' = ActivityById(activities, id)
              /\ config' = [config EXCEPT !.activity = ActivityById(activities, id).name]
              /\ Goto("statuses")
         ELSE Exit("", "StopIteration") /\ UNCHANGED <<default_activity, config>>
    /\ process' = [process EXCEPT !.asked = TRUE]
    /\ UNCHANGED <<config_file, original_config_dump, config_writes, username_token,
                   password_token, redmine, asked, failures, daily_hours, remaining_hours,
                   activities>>
    /\ RunNotBegun

ShouldWrite_always(original, dump) == TRUE

\* 'if self.original_config_dump != config_dump'
ShouldWrite(original, dump) == original # dump

\* configure_ignored_statuses (py35 only) and write_config; main() then calls
\* run()
FinishInit ==
    /\ pc = "statuses"
    /\ LET cfg == IF rev = "py35"
                  THEN [config EXCEPT !.ignoredStatuses =
                           configure_ignored_statuses(config, options.ignored_statuses)]
                  ELSE config
       IN /\ config' = cfg
          /\ IF ShouldWrite(original_config_dump, cfg)
             THEN config_file' = cfg /\ config_writes' = config_writes + 1
             ELSE UNCHANGED <<config_file, config_writes>>
    /\ Goto("run")
    /\ UNCHANGED <<original_config_dump, username_token, password_token, redmine, asked,
                   failures, process, daily_hours, remaining_hours, activities,
                   default_activity>>
    /\ UNCHANGED <<rev, processed_issue_ids, worked_issue_ids, phase, queue, issue_index,
                   default_hours, allocations, suggested, projects, created, attempts,
                   prompted, fetched, logged, loop, confirm, call, ret,
                   existing_time_entries, options, service>>

(* ------------------------- existing entries --------------------------- *)
AfterEntries_no_zero_check(rem, zero) ==
    IF rem < 0 THEN "negative" ELSE "gather"

AfterEntries_no_negative_check(rem, zero) ==
    IF zero = 0 THEN "all_done" ELSE "gather"

\* 'if round(self.remaining_hours, 2) == 0: ... return' and then
\* 'if self.remaining_hours < 0: ... return -1'
AfterEntries(rem, zero) ==
    IF zero = 0 THEN "all_done" ELSE IF rem < 0 THEN "negative" ELSE "gather"

LoadTimeEntries ==
    /\ pc = "run"
    /\ \E entries \in SeqsUpTo(EntryRecs, MaxEntries) :
         LET rem == remaining_hours - SumHours(entries)
             ids == {entries[i].issue : i \in 1..Len(entries)} \ {0}
         IN /\ remaining_hours' = rem
            /\ logged' = SumHours(entries)
            /\ existing_time_entries' = ids
            /\ processed_issue_ids' = IF rev = "py35" THEN ids ELSE {}
            /\ worked_issue_ids' = IF rev = "py35" THEN {} ELSE ids
            /\ \E zero \in round2(rem) :
                 LET way == AfterEntries(rem, zero)
                 IN IF way = "all_done" THEN Exit("all_done", "0")
                    ELSE IF way = "negative" THEN Exit("negative", "-1")
                    ELSE Goto("gather")
    /\ UNCHANGED <<rev, daily_hours, phase, queue, issue_index, default_hours, allocations,
                   suggested, projects, created, attempts, prompted, fetched, loop,
                   activities, default_activity, confirm, call, ret>>
    /\ UNCHANGED initVars

(* --------------------------- candidates ------------------------------- *)
\* the issues of 'updated by me' that commented_by_current_user keeps (sorted by
\* id), then, py35 only, those of 'created by me' not yet in the list
GatherCandidates ==
    /\ pc = "gather"
    /\ \E commented \in SUBSET IssueIds, authored \in SUBSET IssueIds :
         LET done == IF rev = "py35" THEN processed_issue_ids ELSE worked_issue_ids
             first == Ascending(commented \ done)
             second == IF rev = "py35"
                       THEN Ascending((authored \ done) \ Ids(first))
                       ELSE <<>>
         IN StartLoop("primary", first \o second, remaining_hours, <<>>)
    /\ fetched' = TRUE
    /\ allocations' = <<>>
    /\ UNCHANGED <<rev, daily_hours, remaining_hours, worked_issue_ids,
                   default_hours, suggested, projects, created, attempts, prompted, logged,
                   activities, default_activity, confirm, call, ret>>
    /\ UNCHANGED <<existing_time_entries, initVars>>

(* ------------------------- allocation loops --------------------------- *)
Allocation(target, ph, hours, comment, activity) ==
    [issue |-> IF ph = "projects" THEN 0 ELSE target,
     project |-> IF ph = "projects" THEN target ELSE 0,
     hours |-> hours, comment |-> comment, activity |-> activity]

Appended_if_positive(allocs, hours, a) ==
    IF hours > 0 THEN Append(allocs, a) ELSE allocs

\* 'if hours: allocations.append(...)'
Appended(allocs, hours, a) ==
    IF hours # 0 THEN Append(allocs, a) ELSE allocs

DefaultHours_even(rem, left) ==
    compute_hours_per_issue(rem, left)

\* compute_hours_per_issue(remaining, len - index + 1) before the last item,
\* round(remaining, 2) for the last
DefaultHours(rem, left) ==
    IF left > 1 THEN compute_hours_per_issue(rem, left) ELSE round2(rem)

Answered(l, text) ==
    IF l.defaults /\ text = <<>> THEN [l EXCEPT !.left = @ - 1] ELSE NoLoop

\* one pass of the loop of allocate_issues / allocate (phase "primary" and
\* "suggested") or allocate_projects (phase "projects")
AnswerHours ==
    /\ pc = "allocate"
    /\ \E text \in (IF phase = "projects" THEN ProjectAnswers ELSE IssueAnswers) :
       \E d \in DefaultHours(remaining_hours, Len(queue) - issue_index + 1) :
         LET target == queue[issue_index]
             r == IF phase = "projects"
                  THEN parse_hours_comment_and_activity(activities, text, d,
                           DEFAULT_COMMENTS(rev, "Project"),
                           ProjectDefaultActivity(activities))
                  ELSE [activity |-> default_activity] @@
                       parse_hours_and_comment(text, d,
                           DEFAULT_COMMENTS(rev, IssueTracker(target)))
             rem == remaining_hours - r.hours
             allocs == Appended(allocations, r.hours,
                                Allocation(target, phase, r.hours, r.comment, r.activity))
         IN /\ default_hours' = IF Answered(loop, text) = NoLoop THEN 0 ELSE d
            /\ remaining_hours' = rem
            /\ allocations' = allocs
            /\ IF issue_index < Len(queue)
               THEN /\ issue_index' = issue_index + 1
                    /\ processed_issue_ids' = Shown(phase, queue[issue_index + 1])
                    /\ loop' = Answered(loop, text)
                    /\ UNCHANGED <<pc, reported, status, phase, queue>>
               ELSE /\ AfterLoop(phase, rem, allocs)
                    /\ loop' = Answered(loop, text)
                    /\ phase' = "none" /\ queue' = <<>> /\ issue_index' = 0
                    /\ UNCHANGED processed_issue_ids
    /\ prompted' = TRUE
    /\ UNCHANGED <<rev, daily_hours, worked_issue_ids, suggested, projects, created, attempts,
                   fetched, logged, activities, default_activity, confirm, call, ret>>
    /\ UNCHANGED <<existing_time_entries, initVars>>

(* ------------------------ suggested issues ---------------------------- *)
SuggestCap == 10
DefaultCount == 5
OpenStatus == 1
IgnoredStatus == 2
FlawedIssue == 2

\* self.ignored_status_ids: the ids of the statuses the config names;
\* revision "f" has no ignored statuses
ignored_status_ids ==
    IF rev = "py35" /\ config.ignoredStatuses = "[Ignored]" THEN {IgnoredStatus} ELSE {}

\* what an issue listing returns: at most one record per issue, newest (here:
\* highest id) first.  The first listing is drawn without the issues that are
\* both commented and of an ignored status (either alone already drops the
\* issue), the second with commented FALSE (the loop does not read it).
IssueRecs == [id : IssueIds, status : {OpenStatus, IgnoredStatus}, commented : BOOLEAN]
Listings(recs) ==
    {S \in SUBSET recs : \A a \in S, b \in S : a.id = b.id => a = b}

RECURSIVE NewestFirst(_)
NewestFirst(S) ==
    IF S = {} THEN <<>>
    ELSE LET m == CHOOSE x \in S : \A y \in S : x.id >= y.id
         IN <<m>> \o NewestFirst(S \ {m})

AppendCapped_uncapped(list, more) ==
    list \o more

\* the loop appends until the list holds SuggestCap issues
AppendCapped(list, more) ==
    list \o SubSeq(more, 1, Min(Len(more), SuggestCap - Len(list)))

SeqIds(recs) == [i \in 1..Len(recs) |-> recs[i].id]

Declines(ans) == lower(ans) = <<"n">>

\* 'Search for more issues? (Y/n)' answered ans; on anything but n the first
\* loop of run_suggested_additional_issues over the listing 'updated by me,
\* open', newest first
SearchMore(ans, updated) ==
    /\ pc = "search_prompt"
    /\ IF Declines(ans)
       THEN /\ ToProjects(remaining_hours, allocations)
            /\ UNCHANGED suggested
       ELSE /\ suggested' = AppendCapped(<<>>,
                   SeqIds(SelectSeq(updated,
                      LAMBDA e : ~(\/ e.status \in ignored_status_ids
                                   \/ e.id \in processed_issue_ids
                                   \/ e.commented))))
            /\ Goto("list_assigned")
    /\ prompted' = TRUE
    /\ UNCHANGED <<rev, daily_hours, remaining_hours, processed_issue_ids, worked_issue_ids,
                   phase, queue, issue_index, default_hours, allocations, projects, created,
                   attempts, fetched, logged, loop, activities, default_activity, confirm,
                   call, ret>>
    /\ UNCHANGED <<existing_time_entries, initVars>>

AnswerSearch ==
    \E ans \in YesNoAnswers :
    \E S \in Listings({r \in IssueRecs : ~(r.commented /\ r.status # OpenStatus)}) :
        SearchMore(ans, NewestFirst(S))

\* the second loop, over the listing 'assigned to me, open', run while the
\* list is short
AssignedListed(assigned) ==
    /\ pc = "list_assigned"
    /\ suggested' =
          IF Len(suggested) < SuggestCap
          THEN AppendCapped(suggested,
                  SeqIds(SelectSeq(assigned,
                     LAMBDA e : ~(\/ e.status \in ignored_status_ids
                                  \/ e.id \in processed_issue_ids
                                  \/ e.id \in Ids(suggested)))))
          ELSE suggested
    /\ Goto("additional_ids")
    /\ UNCHANGED <<rev, daily_hours, remaining_hours, processed_issue_ids, worked_issue_ids,
                   phase, queue, issue_index, default_hours, allocations, projects, created,
                   attempts, prompted, fetched, logged, loop, activities, default_activity,
                   confirm, call, ret>>
    /\ UNCHANGED <<existing_time_entries, initVars>>

ListAssigned ==
    \E S \in Listings({r \in IssueRecs : ~r.commented}) : AssignedListed(NewestFirst(S))

\* 'for id in additional_issue_ids: if not id: break; ...append(issue)'
RECURSIVE UntilZero(_)
UntilZero(ids) ==
    IF ids = <<>> \/ ids[1] = 0 THEN <<>> ELSE <<ids[1]>> \o UntilZero(Tail(ids))

\* 'Additional issue IDs (default: ...)' answered ids: the ids typed (a
\* suggested issue, or one fetched by id), or the first DefaultCount suggested
\* issues; the loop of allocate_issues no longer reads the suggested list
AdditionalIds(ids) ==
    /\ pc = "additional_ids"
    /\ LET additional == IF ids # <<>> THEN UntilZero(ids)
                         ELSE SubSeq(suggested, 1, Min(DefaultCount, Len(suggested)))
       IN StartLoop("suggested", additional, remaining_hours, allocations)
    /\ suggested' = <<>>
    /\ prompted' = TRUE
    /\ UNCHANGED <<rev, daily_hours, remaining_hours, worked_issue_ids,
                   default_hours, allocations, projects, created, attempts,
                   fetched, logged, activities, default_activity, confirm, call, ret>>
    /\ UNCHANGED <<existing_time_entries, initVars>>

AnswerAdditionalIds ==
    \E ids \in IssueIdInputs : AdditionalIds(ids)

(* ----------------------------- projects ------------------------------- *)
\* 'Log time on projects? (Y/n)' answered; on anything but n the listing of
\* run_log_on_projects
AnswerProjects ==
    /\ pc = "projects_prompt"
    /\ \E ans \in YesNoAnswers :
         IF Declines(ans)
         THEN /\ ToSummary(allocations)
              /\ UNCHANGED projects
         ELSE /\ \E P \in SUBSET ProjectIds : projects' = Ascending(P)
              /\ Goto("project_ids")
    /\ prompted' = TRUE
    /\ UNCHANGED <<rev, daily_hours, remaining_hours, processed_issue_ids, worked_issue_ids,
                   phase, queue, issue_index, default_hours, allocations, suggested, created,
                   attempts, fetched, logged, loop, activities, default_activity, confirm,
                   call, ret>>
    /\ UNCHANGED <<existing_time_entries, initVars>>

\* 'Project IDs: ' answered: nothing typed returns, else the listed projects
\* whose id was typed
AnswerProjectIds ==
    /\ pc = "project_ids"
    /\ \E ids \in ProjectIdInputs :
         IF ids = <<>>
         THEN /\ ToSummary(allocations)
              /\ UNCHANGED <<phase, queue, issue_index, loop, processed_issue_ids>>
         ELSE StartLoop("projects", SelectSeq(projects, LAMBDA p : p \in Ids(ids)),
                        remaining_hours, allocations)
    /\ projects' = <<>>
    /\ prompted' = TRUE
    /\ UNCHANGED <<rev, daily_hours, remaining_hours, worked_issue_ids,
                   default_hours, allocations, suggested, created, attempts,
                   fetched, logged, activities, default_activity, confirm, call, ret>>
    /\ UNCHANGED <<existing_time_entries, initVars>>

(* ------------------------ confirmation, creation ---------------------- *)
Confirms_unless_n(ans) == lower(ans) # <<"n">>

\* confirm = input('Confirm? (y/N): ').lower() == 'y'
Confirms(ans) == lower(ans) = <<"y">>

AnswerConfirm ==
    /\ pc = "confirm"
    /\ \E ans \in ConfirmAnswers :
         /\ confirm' = <<ans>>
         /\ IF Confirms(ans) THEN Goto("create") ELSE Exit("", "0")
    /\ prompted' = TRUE
    /\ UNCHANGED <<rev, daily_hours, remaining_hours, processed_issue_ids, worked_issue_ids,
                   phase, queue, issue_index, default_hours, allocations, suggested, projects,
                   created, attempts, fetched, logged, loop, activities, default_activity,
                   call, ret>>
    /\ UNCHANGED <<existing_time_entries, initVars>>

TimeEntry_raw(a, h) ==
    [issue_id |-> a.issue, project_id |-> a.project, hours |-> a.hours,
     comments |-> a.comment, activity_id |-> a.activity.id]

\* the arguments of self.redmine.time_entry.create for one allocation, h the
\* number '{:.2f}'.format(allocation.hours) denotes
TimeEntry(a, h) ==
    [issue_id |-> a.issue, project_id |-> a.project, hours |-> h,
     comments |-> a.comment, activity_id |-> a.activity.id]

\* the next pass of 'for allocation in allocations', the service accepting
\* the call; after the last one 'Done' is printed
CreateTimeEntry ==
    /\ pc = "create"
    /\ LET a == allocations[attempts + 1]
       IN \E h \in format2(a.hours) : created' = Append(created, TimeEntry(a, h))
    /\ attempts' = attempts + 1
    /\ IF attempts + 1 = Len(allocations) THEN Exit("done", "0") ELSE Goto("create")
    /\ UNCHANGED <<rev, daily_hours, remaining_hours, processed_issue_ids, worked_issue_ids,
                   phase, queue, issue_index, default_hours, allocations, suggested, projects,
                   prompted, fetched, logged, loop, activities, default_activity, confirm,
                   call, ret>>
    /\ UNCHANGED <<existing_time_entries, initVars>>

\* the same pass, the call raising (the service refuses or cannot be reached):
\* the exception leaves run() and main()
CreateFails ==
    /\ pc = "create"
    /\ attempts' = attempts + 1
    /\ Exit("", "raised")
    /\ UNCHANGED <<rev, daily_hours, remaining_hours, processed_issue_ids, worked_issue_ids,
                   phase, queue, issue_index, default_hours, allocations, suggested, projects,
                   created, prompted, fetched, logged, loop, activities, default_activity,
                   confirm, call, ret>>
    /\ UNCHANGED <<existing_time_entries, initVars>>

\* KeyboardInterrupt (Ctrl-C) while run() waits at an input() or a service
\* call: main() catches it, prints an empty line and returns; the locals of the
\* functions under way are gone
Interrupt ==
    /\ pc \in {"run", "gather", "allocate", "search_prompt", "list_assigned",
               "additional_ids", "projects_prompt", "project_ids", "confirm", "create"}
    /\ Exit("", "interrupted")
    /\ phase' = "none" /\ queue' = <<>> /\ issue_index' = 0 /\ default_hours' = 0
    /\ loop' = NoLoop /\ suggested' = <<>> /\ projects' = <<>>
    /\ UNCHANGED <<rev, daily_hours, remaining_hours, processed_issue_ids, worked_issue_ids,
                   allocations, created, attempts, prompted, fetched, logged, activities,
                   default_activity, confirm, call, ret>>
    /\ UNCHANGED <<existing_time_entries, initVars>>

\* a listing or fetch call raising (service unreachable, invalid response,
\* issue not found).  In __init__: user.get('current') with another error
\* than AuthError, enumeration.filter, issue_status.all.  In run():
\* time_entry.filter and issue.get at the start,
\* the issue.filter calls of the candidates and of the suggestions (the first
\* after 'Search for more issues?' was answered), issue.get of a typed id and
\* project.all (after 'Log time on projects?' was answered).  Nothing catches
\* the exception
ListingFails ==
    /\ \/ pc \in {"run", "gather", "search_prompt", "list_assigned", "additional_ids",
                  "projects_prompt"}
       \/ pc \in {"authenticate", "activities"}
       \/ /\ pc = "statuses" /\ rev = "py35"
          /\ configure_ignored_statuses(config, options.ignored_statuses) = "[Ignored]"
    /\ prompted' = (prompted \/ pc \in {"search_prompt", "additional_ids", "projects_prompt"})
    /\ Exit("", "listing raised")
    /\ phase' = "none" /\ queue' = <<>> /\ issue_index' = 0 /\ default_hours' = 0
    /\ loop' = NoLoop /\ suggested' = <<>> /\ projects' = <<>>
    /\ UNCHANGED <<rev, daily_hours, remaining_hours, processed_issue_ids, worked_issue_ids,
                   allocations, created, attempts, fetched, logged, activities,
                   default_activity, confirm, call, ret>>
    /\ UNCHANGED <<existing_time_entries, initVars>>

Next ==
    \/ ReadConfig
    \/ Authenticate
    \/ LoadActivities
    \/ FinishInit
    \/ LoadTimeEntries
    \/ GatherCandidates
    \/ AnswerHours
    \/ AnswerSearch
    \/ ListAssigned
    \/ AnswerAdditionalIds
    \/ AnswerProjects
    \/ AnswerProjectIds
    \/ AnswerConfirm
    \/ CreateTimeEntry
    \/ CreateFails
    \/ Interrupt
    \/ ListingFails

Spec == Init /\ [][Next]_vars

(* ------------- an allocation loop on enumerated budgets --------------- *)
\* allocate_issues or allocate_projects entered with any positive budget of
\* whole hundredths and any queue of 1..MaxQueue items
InitAlloc ==
    /\ rev \in {"py35", "f"}
    /\ pc = "allocate"
    /\ phase \in (IF rev = "py35" THEN {"primary", "projects"} ELSE {"primary"})
    /\ \E c \in 1..MaxCents :
         /\ daily_hours = c * Cent
         /\ remaining_hours = c * Cent
    /\ \E n \in 1..MaxQueue :
         /\ queue = [i \in 1..n |-> i]
         /\ loop = [hours0 |-> remaining_hours, allocs0 |-> 0, defaults |-> TRUE, left |-> n]
    /\ issue_index = 1
    /\ processed_issue_ids = (IF phase = "projects" THEN {} ELSE {1})
    /\ worked_issue_ids = {} /\ default_hours = 0
    /\ allocations = <<>> /\ suggested = <<>> /\ projects = <<>>
    /\ created = <<>> /\ attempts = 0 /\ reported = "" /\ status = "running"
    /\ prompted = FALSE /\ fetched = TRUE /\ logged = 0
    /\ activities = <<Development, OnProject>>
    /\ default_activity = Development
    /\ confirm = <<>>
    /\ call = NoCall /\ ret = <<>>
    /\ existing_time_entries = {}
    /\ Constructed

NextAlloc == AnswerHours

SpecAlloc == InitAlloc /\ [][NextAlloc]_vars

(* ------- run_suggested_additional_issues on enumerated listings ------- *)
\* the issues hi, hi-1, .., lo as a listing returns them, newest first
Listed(lo, hi, flaw) ==
    [i \in 1..(hi - lo + 1) |->
        [id |-> hi - i + 1,
         status |-> IF flaw = <<hi - i + 1, "ignored">> THEN IgnoredStatus ELSE OpenStatus,
         commented |-> flaw = <<hi - i + 1, "commented">>]]

Flaws == {<<0, "none">>} \cup ({FlawedIssue} \X {"ignored", "processed", "commented"})

\* run() about to ask 'Search for more issues?' with the whole day left, the
\* service holding issues 1..MaxListed: 'updated by me' lists 1..n, 'assigned
\* to me' lists lo..hi, one issue at most is of an ignored status, already
\* processed or commented by the user
InitSuggest ==
    /\ rev \in {"py35", "f"}
    /\ pc = "search_prompt"
    /\ daily_hours = Unit /\ remaining_hours = Unit
    /\ \E n \in 0..MaxListed, lo \in 1..MaxListed, flaw \in Flaws, ids \in IssueIdInputs :
       \E hi \in (lo - 1)..MaxListed :
          /\ call = [fn |-> "run_suggested_additional_issues",
                     updated |-> Listed(1, n, flaw),
                     assigned |-> [i \in 1..(hi - lo + 1) |->
                                      [Listed(lo, hi, flaw)[i] EXCEPT !.commented = FALSE]],
                     ids |-> ids]
          /\ processed_issue_ids = (IF flaw[2] = "processed" THEN {flaw[1]} ELSE {})
    /\ worked_issue_ids = {} /\ existing_time_entries = {}
    /\ phase = "none" /\ queue = <<>> /\ issue_index = 0 /\ default_hours = 0
    /\ allocations = <<>> /\ suggested = <<>> /\ projects = <<>>
    /\ created = <<>> /\ attempts = 0 /\ reported = "" /\ status = "running"
    /\ prompted = FALSE /\ fetched = TRUE /\ logged = 0 /\ loop = NoLoop
    /\ activities = <<Development, OnProject>>
    /\ default_activity = Development
    /\ confirm = <<>> /\ ret = <<>>
    /\ Constructed

SuggestUpdated == SearchMore(<<>>, call.updated)
SuggestAssigned == AssignedListed(call.assigned)
ChooseAdditional == AdditionalIds(call.ids)

\* up to the first prompt of allocate_issues
NextSuggest == SuggestUpdated \/ SuggestAssigned \/ ChooseAdditional

SpecSuggest == InitSuggest /\ [][NextSuggest]_vars

(* ----------------- TimeLogger(options), run after run ------------------ *)
\* no file, the file of an earlier run, or that file with the password removed
ConfigFiles(r) ==
    {EmptyConfig, StoredConfig(r), [StoredConfig(r) EXCEPT !.password = NoToken]}

IgnoredOptions(r) == IF r = "py35" THEN {"null", "[]", "[Ignored]"} ELSE {"null"}

\* the program started with any of the options on any of the files, the
\* service holding one account and any list of activities
InitInit ==
    /\ rev \in {"py35", "f"}
    /\ pc = "init"
    /\ \E d \in {0} \cup DailyChoices, names \in IgnoredOptions(rev) :
          options = [daily_hours |-> d, ignored_statuses |-> names]
    /\ config_file \in ConfigFiles(rev)
    /\ \E p \in Passwords, acts \in ActivityLists :
          service = [username |-> "u", password |-> p, activities |-> acts]
    /\ NotConstructed
    /\ daily_hours = 0 /\ remaining_hours = 0
    /\ processed_issue_ids = {} /\ worked_issue_ids = {}
    /\ phase = "none" /\ queue = <<>> /\ issue_index = 0 /\ default_hours = 0
    /\ allocations = <<>> /\ suggested = <<>> /\ projects = <<>>
    /\ created = <<>> /\ attempts = 0 /\ reported = "" /\ status = "running"
    /\ prompted = FALSE /\ fetched = FALSE /\ logged = 0 /\ loop = NoLoop
    /\ activities = <<>>
    /\ default_activity = NoActivity
    /\ confirm = <<>>
    /\ call = NoCall /\ ret = <<>>
    /\ existing_time_entries = {}

\* a process whose __init__ went through is over (run() leaves the config and
\* its file alone) and the program is started again with the same options
Restart ==
    /\ pc = "run"
    /\ process.run = 1
    /\ process' = [run |-> 2, asked |-> FALSE]
    /\ pc' = "init" /\ reported' = "" /\ status' = "running"
    /\ config' = EmptyConfig /\ original_config_dump' = EmptyConfig
    /\ config_writes' = 0 /\ username_token' = NoToken /\ password_token' = NoToken
    /\ redmine' = NoRedmine /\ asked' = <<>> /\ failures' = 0
    /\ daily_hours' = 0 /\ remaining_hours' = 0
    /\ activities' = <<>> /\ default_activity' = NoActivity
    /\ prompted' = FALSE
    /\ UNCHANGED <<rev, processed_issue_ids, worked_issue_ids, phase, queue, issue_index,
                   default_hours, allocations, suggested, projects, created, attempts,
                   fetched, logged, loop, confirm, call, ret,
                   existing_time_entries, options, service, config_file>>

\* __init__ step by step, up to the first service call of run()
NextInit ==
    \/ ReadConfig
    \/ AnswerUrl
    \/ Authenticate
    \/ LoadActivities
    \/ AnswerActivity
    \/ FinishInit
    \/ ListingFails
    \/ Restart

SpecInit == InitInit /\ [][NextInit]_vars

(* ====================================================================== *)
(* Properties of the helpers (checked under SpecPure)                     *)
(* ====================================================================== *)
Returned(fn) == call.fn = fn /\ ret # <<>>

Abs(x) == IF x < 0 THEN 0 - x ELSE x

\* C9: compute_hours_per_issue(hours, issue_count) is a multiple of 0.05 for
\* every positive hours and positive issue_count, and no other multiple of
\* 0.05 is nearer to hours / issue_count.
C9_NearestMultipleOfStep ==
    Returned("compute_hours_per_issue") =>
        LET r == ret[1]
            h == call.hours
            n == call.issue_count
        IN /\ r % (5 * Cent) = 0
           /\ \A k \in 0..(h \div (5 * Cent) + 1) :
                 Abs(r * n - h) <= Abs(5 * Cent * k * n - h)

\* a call whose quotient is no multiple of 0.05 and whose result is above it
C9_Witness ==
    /\ Returned("compute_hours_per_issue")
    /\ call.issue_count > 1
    /\ call.hours % (5 * Cent * call.issue_count) # 0
    /\ ret[1] * call.issue_count > call.hours

\* C7: parse_hours_and_comment returns, for every text and defaults, by the
\* ordered policy: empty text gives the defaults; else a text with a blank
\* whose part before the first blank is a number gives (number, rest); else a
\* text that is a number gives (number, default comment); else it gives
\* (default hours, text).  It always returns a (hours, comment) pair.
C7_FallbackPolicy ==
    Returned("parse_hours_and_comment") =>
        LET t == call.text
            r == ret[1]
            sp == FirstSpace(t)
            before == SubSeq(t, 1, sp - 1)
            rest == SubSeq(t, sp + 1, Len(t))
        IN /\ DOMAIN r = {"hours", "comment"}
           /\ t = <<>> => r.hours = call.default_hours /\ r.comment = call.default_comment
           /\ (t # <<>> /\ sp > 0 /\ IsFloat(before)) =>
                  r.hours = FloatValue(before) /\ r.comment = rest
           /\ (t # <<>> /\ ~(sp > 0 /\ IsFloat(before)) /\ IsFloat(t)) =>
                  r.hours = FloatValue(t) /\ r.comment = call.default_comment
           /\ (t # <<>> /\ ~(sp > 0 /\ IsFloat(before)) /\ ~IsFloat(t)) =>
                  r.hours = call.default_hours /\ r.comment = t

\* a number, a blank and a comment of two words came back split at the first blank
C7_Witness ==
    /\ Returned("parse_hours_and_comment")
    /\ call.text = <<"1", " ", "x", " ", "x">>
    /\ ret[1].hours = Unit
    /\ ret[1].comment = <<"x", " ", "x">>
    /\ call.default_hours # Unit

\* the text is '<number> <comment words>' and its last word is not the id of
\* an activity of the list
NumberThenWords(t, acts) ==
    LET sp == FirstSpace(t)
        words == SubSeq(t, sp + 1, Len(t))
        last == SubSeq(t, LastSpace(t) + 1, Len(t))
    IN /\ sp > 0
       /\ IsFloat(SubSeq(t, 1, sp - 1))
       /\ words # <<>> /\ words[1] # " " /\ words[Len(words)] # " "
       /\ ~(IsInt(last) /\ \E i \in 1..Len(acts) : acts[i].id = IntValue(last))

\* C8: parse_hours_comment_and_activity on '<number> <comment words>' whose
\* last word is no known activity id gives hours = number, comment = the
\* comment words and the default activity.
C8_NumberThenComment ==
    (Returned("parse_hours_comment_and_activity")
        /\ NumberThenWords(call.text, call.activities)) =>
        LET t == call.text
            sp == FirstSpace(t)
        IN /\ ret[1].hours = FloatValue(SubSeq(t, 1, sp - 1))
           /\ ret[1].comment = SubSeq(t, sp + 1, Len(t))
           /\ ret[1].activity = call.default_activity

(* ====================================================================== *)
(* Properties of the allocation loop (checked under SpecAlloc)            *)
(* ====================================================================== *)
\* C2: a loop entered with a positive budget of whole hundredths and answered
\* with empty input at every prompt offers no negative default, and when it
\* ends the hours appended sum to the budget and remaining_hours is 0.
C2_DefaultsExhaustBudget ==
    (loop # NoLoop /\ loop.hours0 > 0 /\ loop.hours0 % Cent = 0) =>
        /\ default_hours >= 0
        /\ loop.left = 0 =>
              /\ remaining_hours = 0
              /\ SumHours(SubSeq(allocations, loop.allocs0 + 1, Len(allocations)))
                    = loop.hours0

\* three defaults were accepted on a budget that three does not divide evenly
C2_Witness ==
    /\ loop # NoLoop /\ loop.left = 0
    /\ Len(allocations) - loop.allocs0 = 3
    /\ loop.hours0 % (15 * Cent) # 0
    /\ remaining_hours = 0

(* ====================================================================== *)
(* Properties of TimeLogger.run (checked under Spec)                      *)
(* ====================================================================== *)
Yes == {<<"y">>, <<"Y">>}
Left == daily_hours - logged
Entries == pc \notin {"init", "url_prompt", "authenticate", "activities", "activity_prompt",
                     "statuses", "run"}

\* C1: a creation call is issued only after 'Confirm?' was answered y or Y;
\* after any other answer the run has ended with no creation call.
C1_CreateOnlyConfirmed ==
    /\ attempts > 0 => (confirm # <<>> /\ confirm[1] \in Yes)
    /\ (confirm # <<>> /\ confirm[1] \notin Yes) =>
          (attempts = 0 /\ created = <<>> /\ pc = "exit" /\ status = "0")

\* a creation call after the answer Y
C1_Witness ==
    /\ confirm = <<(<<"Y">>)>>
    /\ Len(created) >= 1

\* C3 as claimed: whenever the remaining hours are below 0 after the existing
\* entries were subtracted, run reports the negative-remaining error, returns
\* -1, asks nothing and creates nothing.
C3_NegativeStops ==
    (Entries /\ Left < 0) =>
        (reported = "negative" /\ status = "-1" /\ pc = "exit"
            /\ ~prompted /\ attempts = 0)

\* C3 amended: whenever the remaining hours are below -0.005 (negative, and
\* not 0 at two decimals), run reports the negative-remaining error, returns
\* -1, asks nothing and creates nothing.
C3_NegativeBeyondRoundingStops ==
    (Entries /\ 2 * Left < 0 - Cent) =>
        (reported = "negative" /\ status = "-1" /\ pc = "exit"
            /\ ~prompted /\ attempts = 0)

\* the entries exceed the budget and the error was reported
C3_Witness ==
    /\ Entries /\ logged > daily_hours + Cent
    /\ reported = "negative" /\ status = "-1"

\* C4: when the existing entries equal the daily budget (remaining hours 0 at
\* two decimals), run reports completion and returns normally without a
\* candidate listing, a prompt or a creation call.
C4_ZeroStops ==
    (Entries /\ 2 * Abs(Left) < Cent) =>
        (reported = "all_done" /\ status = "0" /\ pc = "exit"
            /\ ~fetched /\ ~prompted /\ attempts = 0)

\* entries of exactly the budget, and completion reported
C4_Witness ==
    /\ Entries /\ logged = daily_hours /\ logged > 0
    /\ reported = "all_done"

\* C5: once the user confirmed, the hours of the allocations plus the hours
\* already logged do not exceed the daily budget.
C5_WithinBudget ==
    (confirm # <<>> /\ confirm[1] \in Yes) =>
        SumHours(allocations) + logged <= daily_hours

\* C6: every allocation of the list has hours > 0.
C6_PositiveHours ==
    \A i \in 1..Len(allocations) : allocations[i].hours > 0

CallsMatch(Hours(_)) ==
    /\ Len(created) <= Len(allocations)
    /\ \A k \in 1..Len(created) :
          LET a == allocations[k]
              c == created[k]
          IN /\ c.issue_id = a.issue /\ c.project_id = a.project
             /\ c.comments = a.comment /\ c.activity_id = a.activity.id
             /\ c.hours \in Hours(a)
    /\ reported = "done" =>
          (attempts = Len(allocations) /\ Len(created) = Len(allocations))
    /\ status = "raised" =>
          (Len(created) = attempts - 1 /\ reported # "done" /\ pc = "exit")
    /\ (confirm # <<>> /\ status # "raised") => Len(created) = attempts

\* C10 as claimed: the calls made are, in order, one per allocation, each with
\* that allocation's target, hours, comment and activity; a failing call K
\* leaves calls 1..K-1 made, none after it, and no 'Done'.
C10_CallsCarryAllocations ==
    CallsMatch(LAMBDA a : {a.hours})

\* C10 amended: the same, each call carrying the allocation's hours as
\* formatted to two decimals ('{:.2f}').
C10_CallsCarryFormattedHours ==
    CallsMatch(LAMBDA a : format2(a.hours))

\* the second of three calls failed after the first was made
C10_Witness ==
    /\ status = "raised" /\ attempts = 2
    /\ Len(created) = 1 /\ Len(allocations) = 3

\* C11: a run ended by KeyboardInterrupt has created none of the entries of
\* its allocations or all of them, never a strict non-empty prefix.
C11_InterruptAllOrNothing ==
    status = "interrupted" =>
        (created = <<>> \/ Len(created) = Len(allocations))

\* C12: in either revision, an issue that has a time entry of the user on the
\* log date is in no later candidate list: neither in the primary list nor in
\* the suggested additional issues.
C12_EntryIssuesExcluded ==
    /\ (pc = "allocate" /\ phase = "primary") =>
          Ids(queue) \cap existing_time_entries = {}
    /\ Ids(suggested) \cap existing_time_entries = {}

(* ====================================================================== *)
(* Properties of run_suggested_additional_issues (under SpecSuggest)      *)
(* ====================================================================== *)
ListedIn(listing, id) == \E k \in 1..Len(listing) : listing[k].id = id
\* the issue is one the first loop appends when the cap allows
FromUpdated(id) ==
    \E k \in 1..Len(call.updated) :
        /\ call.updated[k].id = id /\ ~call.updated[k].commented
Place(listing, id) == CHOOSE k \in 1..Len(listing) : listing[k].id = id

\* C13: the suggested list holds at most 10 issues, no id twice, no issue of
\* an ignored status, no id of processed_issue_ids, the 'updated by you'
\* results before the 'assigned to you' results, each in the order listed; and
\* on an empty id list the allocation loop starts on exactly the first
\* min(5, length) suggested issues in that order.
C13_SuggestedList ==
    /\ [](/\ Len(suggested) <= 10
          /\ \A i, j \in 1..Len(suggested) : suggested[i] = suggested[j] => i = j
          /\ \A i \in 1..Len(suggested) :
                /\ suggested[i] \notin processed_issue_ids
                /\ ListedIn(call.updated, suggested[i]) \/ ListedIn(call.assigned, suggested[i])
                /\ \A e \in Ids(call.updated) \cup Ids(call.assigned) :
                      e.id = suggested[i] => e.status \notin ignored_status_ids
          /\ \A i, j \in 1..Len(suggested) :
                i < j =>
                   /\ FromUpdated(suggested[j]) => FromUpdated(suggested[i])
                   /\ FromUpdated(suggested[j]) =>
                         Place(call.updated, suggested[i]) < Place(call.updated, suggested[j])
                   /\ ~FromUpdated(suggested[i]) =>
                         Place(call.assigned, suggested[i]) < Place(call.assigned, suggested[j]))
    /\ [][(pc = "additional_ids" /\ call.ids = <<>>) =>
             LET n == IF Len(suggested) < 5 THEN Len(suggested) ELSE 5
             IN IF n = 0 THEN pc' # "allocate"
                ELSE /\ pc' = "allocate" /\ phase' = "suggested" /\ issue_index' = 1
                     /\ queue' = [i \in 1..n |-> suggested[i]]]_vars

\* more than ten issues could be suggested, and on an empty id list the loop
\* started on five of them
C13_Witness ==
    /\ pc = "allocate" /\ phase = "suggested"
    /\ call.ids = <<>>
    /\ Len(call.updated) \in 1..9
    /\ Cardinality({e.id : e \in Ids(call.updated) \cup Ids(call.assigned)}) > 10
    /\ Len(queue) = 5

(* ====================================================================== *)
(* Further properties of TimeLogger.run (checked under Spec)              *)
(* ====================================================================== *)
\* run() stands at 'Search for more issues?', in the listings and the id
\* prompt behind it, at 'Log time on projects?' or in what is behind it
LaterPhase ==
    pc \in {"search_prompt", "list_assigned", "additional_ids", "projects_prompt",
            "project_ids"}

\* C14: 'Search for more issues?' and 'Log time on projects?' are shown only
\* while remaining_hours > 0; when an allocation loop ends with remaining_hours
\* at 0 or below, run() goes straight to the summary and 'Confirm?', or to
\* 'Nothing to allocate'.
C14_LaterPhasesOnlyWhileHoursRemain ==
    /\ [](LaterPhase => remaining_hours > 0)
    /\ [][(pc = "allocate" /\ pc' # "allocate" /\ status' # "interrupted"
              /\ remaining_hours' <= 0) =>
             \/ pc' = "confirm" /\ allocations' # <<>>
             \/ pc' = "exit" /\ reported' = "nothing" /\ allocations' = <<>>]_vars

\* the primary loop of the py35 port overspent and run() stands at 'Confirm?'
C14_Witness ==
    /\ rev = "py35" /\ pc = "confirm"
    /\ remaining_hours < 0
    /\ processed_issue_ids = {1}

\* C18: in every state of run(), remaining_hours plus the hours of the
\* existing time entries plus the hours of the allocations equals daily_hours
\* (a prompt answered with zero hours adds no allocation and leaves
\* remaining_hours as it was).
C18_HoursConserved ==
    remaining_hours + logged + SumHours(allocations) = daily_hours

\* existing entries, a positive and a negative allocation, and 'Confirm?'
C18_Witness ==
    /\ pc = "confirm"
    /\ logged > 0
    /\ \E i, j \in 1..Len(allocations) :
          allocations[i].hours > 0 /\ allocations[j].hours < 0

\* C17: when a listing or fetch call fails with a service error, the process
\* ends without having written the config file and without a time entry
\* created.
C17_ListingErrorLeavesNothing ==
    status = "listing raised" =>
        (config_writes = 0 /\ config_file = original_config_dump /\ created = <<>>)

(* ====================================================================== *)
(* Properties of TimeLogger.__init__ (checked under SpecInit)             *)
(* ====================================================================== *)
Both == {"Username", "Password"}

\* C15: after an authentication failure the cached tokens are gone and every
\* later attempt asks for the username and for the password; open_redmine
\* stays in its loop until an attempt is accepted (unless another error ends
\* the process), and from then on the
\* config holds encryptions of the credentials of the accepted attempt.
C15_RetryAsksBoth ==
    /\ failures > 0 => (username_token = NoToken /\ password_token = NoToken)
    /\ \A i \in 2..Len(asked) : asked[i] = Both
    /\ Len(asked) = failures + (IF redmine # NoRedmine THEN 1 ELSE 0)
    /\ (redmine = NoRedmine /\ failures > 0 /\ status = "running") => pc = "authenticate"
    /\ pc \in {"activities", "activity_prompt", "statuses", "run"} => redmine # NoRedmine
    /\ redmine # NoRedmine =>
          /\ redmine = [username |-> service.username, password |-> service.password]
          /\ decrypt(config.username) = redmine.username
          /\ decrypt(config.password) = redmine.password

\* the stored password was refused, a typed one too, the third attempt was
\* accepted and __init__ went through
C15_Witness ==
    /\ pc = "run" /\ failures = 2
    /\ original_config_dump.password # NoToken
    /\ decrypt(original_config_dump.password) # redmine.password
    /\ config.password # original_config_dump.password

\* C16: a process writes the config file at most once, and only when the
\* config at the end of __init__ differs from the config it loaded; started
\* again with the same options and no prompt to answer, it does not write.
C16_WriteOnlyWhenChanged ==
    /\ config_writes <= 1
    /\ config_writes = 1 =>
          (pc \in {"run", "exit"} /\ config # original_config_dump /\ config_file = config)
    /\ (config_writes = 0 /\ pc # "init") => config_file = original_config_dump
    /\ (process.run = 2 /\ ~process.asked) => config_writes = 0

\* the first run made the file from nothing, --daily-hours given; the second
\* run went through __init__ without a prompt and without writing
C16_Witness ==
    /\ process = [run |-> 2, asked |-> FALSE]
    /\ pc = "run" /\ config_writes = 0
    /\ config_file.key = generate_key(1)
    /\ options.daily_hours # 0
    /\ config_file = config

====
